---- MODULE Spec2Model ----
(***************************************************************************)
(* Model of userassist-parser.py: the ROT13 name decoder, the FILETIME and *)
(* focus-time converters, the UserAssist entry decoder and the driver that *)
(* walks the hives.                                                        *)
(*                                                                         *)
(* Representation.  A Python str is a sequence of one-character strings.   *)
(* A bytes object is a sequence of integers 0..255.  A Python int is an    *)
(* arbitrary-precision natural, written as its sequence of decimal digits, *)
(* most significant first, without leading zeros (zero is <<0>>): the      *)
(* values the program handles (32- and 64-bit unsigned fields) do not fit  *)
(* the machine integers of the model checker.                              *)
(***************************************************************************)
EXTENDS Integers, Sequences, FiniteSets, TLC

VARIABLES
    fn,               \* the function applied last ("none" before any call)
    arg,              \* its argument
    ret,              \* its return value
    prev,             \* the call before it, when the harness keeps it
    pc,               \* position of main / parse_userassist
    ntuser_files,     \* the hive files found, in the order main visits them
    file_idx,         \* index of the hive file being processed (1-based)
    guid_idx,         \* GUID subkeys of the current hive visited so far
    value_idx,        \* values of the current Count key visited so far
    guid,             \* guid_key.name() of the current GUID subkey
    version_marker,   \* the GUID subkey's Version value, <<>> or <<n>>, while inside it
    win7_format,      \* format flag of parse_userassist
    userassist_data,  \* the current hive's result list
    all_data,         \* main's collection
    returned,         \* what parse_userassist returned, per processed file
    scanned,          \* what was read under the current hive's GUID subkeys
    presented         \* GUID subkeys and values read so far, over all hives

vars == <<fn, arg, ret, prev, pc, ntuser_files, file_idx, guid_idx, value_idx,
          guid, version_marker, win7_format, userassist_data, all_data, returned,
          scanned, presented>>

driverVars == <<pc, ntuser_files, file_idx, guid_idx, value_idx, guid,
                version_marker, win7_format, userassist_data, all_data, returned,
                scanned, presented>>

callVars == <<fn, arg, ret, prev>>

(***************************************************************************)
(* Python values                                                           *)
(***************************************************************************)
None == [py_none |-> TRUE]

IsNone(v) == "py_none" \in DOMAIN v

NoCall == [fn |-> "none"]

Chr(d) == <<"0", "1", "2", "3", "4", "5", "6", "7", "8", "9">>[d + 1]

(***************************************************************************)
(* Arbitrary-precision naturals                                            *)
(***************************************************************************)
RECURSIVE StripZeros(_)
StripZeros(ds) ==
    IF Len(ds) > 1 /\ ds[1] = 0 THEN StripZeros(Tail(ds)) ELSE ds

RECURSIVE SmallDigits(_)
SmallDigits(n) ==
    IF n = 0 THEN <<>> ELSE Append(SmallDigits(n \div 10), n % 10)

\* the Python int of a machine-sized natural
NumOf(n) == IF n = 0 THEN <<0>> ELSE SmallDigits(n)

RECURSIVE MulAddRaw(_, _, _)
MulAddRaw(ds, m, c) ==
    IF ds = <<>>
    THEN SmallDigits(c)
    ELSE LET t == ds[Len(ds)] * m + c
         IN  Append(MulAddRaw(SubSeq(ds, 1, Len(ds) - 1), m, t \div 10), t % 10)

\* ds * m + a, for machine-sized m and a
MulAdd(ds, m, a) ==
    LET r == MulAddRaw(ds, m, a) IN IF r = <<>> THEN <<0>> ELSE StripZeros(r)

RECURSIVE DivModRaw(_, _, _, _, _)
DivModRaw(ds, d, i, r, q) ==
    IF i > Len(ds)
    THEN [q |-> StripZeros(q), r |-> r]
    ELSE LET t == r * 10 + ds[i]
         IN  DivModRaw(ds, d, i + 1, t % d, Append(q, t \div d))

\* divmod(ds, d), for a machine-sized divisor d: the quotient is a Python int,
\* the remainder machine-sized
DivMod(ds, d) == DivModRaw(ds, d, 1, 0, <<>>)

RECURSIVE ToSmall(_)
ToSmall(ds) ==
    IF ds = <<>> THEN 0 ELSE ToSmall(SubSeq(ds, 1, Len(ds) - 1)) * 10 + ds[Len(ds)]

RECURSIVE LexLeq(_, _)
LexLeq(a, b) ==
    \/ a = <<>>
    \/ /\ b # <<>>
       /\ \/ a[1] < b[1]
          \/ a[1] = b[1] /\ LexLeq(Tail(a), Tail(b))

NumLeq(a, b) == Len(a) < Len(b) \/ (Len(a) = Len(b) /\ LexLeq(a, b))

NumLt(a, b) == NumLeq(a, b) /\ a # b

(***************************************************************************)
(* rot13_decode                                                            *)
(***************************************************************************)
Upper == <<"A", "B", "C", "D", "E", "F", "G", "H", "I", "J", "K", "L", "M",
           "N", "O", "P", "Q", "R", "S", "T", "U", "V", "W", "X", "Y", "Z">>

Lower == <<"a", "b", "c", "d", "e", "f", "g", "h", "i", "j", "k", "l", "m",
           "n", "o", "p", "q", "r", "s", "t", "u", "v", "w", "x", "y", "z">>

IsIn(c, table) == \E i \in 1..Len(table) : table[i] = c

IndexIn(c, table) == CHOOSE i \in 1..Len(table) : table[i] = c

Rotate13(c, table) == table[((IndexIn(c, table) - 1 + 13) % 26) + 1]

\* the rot_13 codec's character map
Rot13Char(c) ==
    IF IsIn(c, Upper) THEN Rotate13(c, Upper)
    ELSE IF IsIn(c, Lower) THEN Rotate13(c, Lower)
    ELSE c

\* faulty variant: the lower-case rotation is off by one
rot13_decode_LowerSkewed(encoded_string) ==
    [i \in 1..Len(encoded_string) |->
        LET c == encoded_string[i]
        IN  IF IsIn(c, Upper) THEN Upper[((IndexIn(c, Upper) - 1 + 13) % 26) + 1]
            ELSE IF IsIn(c, Lower) THEN Lower[((IndexIn(c, Lower) + 13) % 26) + 1]
            ELSE c]

rot13_decode(encoded_string) ==
    [i \in 1..Len(encoded_string) |-> Rot13Char(encoded_string[i])]

(***************************************************************************)
(* Exceptions, struct.pack / struct.unpack, slicing                        *)
(***************************************************************************)
\* An operation that may raise yields a record: the exception, or (for the
\* operations whose value is not itself a record) the value under val.
Raise(e) == [exc |-> e]

Value(v) == [val |-> v]

IsExc(v) == "exc" \in DOMAIN v

\* data[lo:hi] of Python: clipped to the length, never an error
Slice(data, lo, hi) ==
    LET n  == Len(data)
        a  == IF lo > n THEN n ELSE lo
        b  == IF hi > n THEN n ELSE hi
    IN  IF b <= a THEN <<>> ELSE SubSeq(data, a + 1, b)

RECURSIVE FromBytesLE(_)
FromBytesLE(bs) ==
    IF bs = <<>> THEN <<0>> ELSE MulAdd(FromBytesLE(Tail(bs)), 256, bs[1])

RECURSIVE ToBytesLE(_, _)
ToBytesLE(n, size) ==
    IF size = 0
    THEN [bytes |-> <<>>, rest |-> n]
    ELSE LET dm == DivMod(n, 256)
             hi == ToBytesLE(dm.q, size - 1)
         IN  [bytes |-> <<dm.r>> \o hi.bytes, rest |-> hi.rest]

\* struct.unpack("<I", b)[0] (size 4) and struct.unpack("<Q", b)[0] (size 8)
struct_unpack(size, bs) ==
    IF Len(bs) # size THEN Raise("struct.error") ELSE Value(FromBytesLE(bs))

\* struct.pack("<Q", n) (size 8)
struct_pack(size, n) ==
    LET p == ToBytesLE(n, size)
    IN  IF p.rest # <<0>> THEN Raise("struct.error") ELSE Value(p.bytes)

(***************************************************************************)
(* datetime, timedelta, strftime                                           *)
(***************************************************************************)
DaysInMonth == <<31, 28, 31, 30, 31, 30, 31, 31, 30, 31, 30, 31>>

DaysBeforeMonth == <<0, 31, 59, 90, 120, 151, 181, 212, 243, 273, 304, 334>>

IsLeap(year) == year % 4 = 0 /\ (year % 100 # 0 \/ year % 400 = 0)

DaysBeforeYear(year) ==
    LET y == year - 1 IN y * 365 + y \div 4 - y \div 100 + y \div 400

\* date.toordinal(): 0001-01-01 is day 1
Ymd2Ord(year, month, day) ==
    DaysBeforeYear(year) + DaysBeforeMonth[month]
        + (IF month > 2 /\ IsLeap(year) THEN 1 ELSE 0) + day

\* date.fromordinal()
Ord2Ymd(ordinal) ==
    LET n0   == ordinal - 1
        n400 == n0 \div 146097
        r400 == n0 % 146097
        n100 == r400 \div 36524
        r100 == r400 % 36524
        n4   == r100 \div 1461
        r4   == r100 % 1461
        n1   == r4 \div 365
        n    == r4 % 365
        year == n400 * 400 + 1 + n100 * 100 + n4 * 4 + n1
    IN  IF n1 = 4 \/ n100 = 4
        THEN [year |-> year - 1, month |-> 12, day |-> 31]
        ELSE LET leapyear == n1 = 3 /\ (n4 # 24 \/ n100 = 3)
                 m0   == (n + 50) \div 32
                 p0   == DaysBeforeMonth[m0]
                             + (IF m0 > 2 /\ leapyear THEN 1 ELSE 0)
                 month == IF p0 > n THEN m0 - 1 ELSE m0
                 preceding ==
                     IF p0 > n
                     THEN p0 - (DaysInMonth[month]
                                  + (IF month = 2 /\ leapyear THEN 1 ELSE 0))
                     ELSE p0
             IN  [year |-> year, month |-> month, day |-> n - preceding + 1]

MaxOrdinal == Ymd2Ord(9999, 12, 31)

MaxDeltaDigits == Len(NumOf(999999999))

\* datetime(year, month, day)
datetime(year, month, day) ==
    [year |-> year, month |-> month, day |-> day,
     hour |-> 0, minute |-> 0, second |-> 0, microsecond |-> 0]

\* timedelta(<unit>=n) for a unit of which perSecond make a second
\* (microseconds: 1000000, milliseconds: 1000); OverflowError beyond
\* 999999999 days
timedelta(n, perSecond) ==
    LET a == DivMod(n, perSecond)
        b == DivMod(a.q, 86400)
    IN  IF Len(b.q) > MaxDeltaDigits
        THEN Raise("OverflowError")
        ELSE [days |-> ToSmall(b.q), seconds |-> b.r,
              microseconds |-> a.r * (1000000 \div perSecond)]

\* datetime + timedelta; OverflowError when the date leaves 0001..9999
DatetimeAdd(dt, delta) ==
    IF IsExc(delta) THEN delta
    ELSE
    LET us   == dt.microsecond + delta.microseconds
        secs == dt.hour * 3600 + dt.minute * 60 + dt.second + delta.seconds
                    + us \div 1000000
        ord  == Ymd2Ord(dt.year, dt.month, dt.day) + delta.days + secs \div 86400
        sod  == secs % 86400
    IN  IF ord < 1 \/ ord > MaxOrdinal
        THEN Raise("OverflowError")
        ELSE LET d == Ord2Ymd(ord)
             IN  [year |-> d.year, month |-> d.month, day |-> d.day,
                  hour |-> sod \div 3600, minute |-> (sod % 3600) \div 60,
                  second |-> sod % 60, microsecond |-> us % 1000000]

Pad2(n) == <<Chr(n \div 10), Chr(n % 10)>>

Pad4(n) == Pad2(n \div 100) \o Pad2(n % 100)

\* timestamp.strftime('%Y-%m-%d %H:%M:%S')
strftime(ts) ==
    Pad4(ts.year) \o <<"-">> \o Pad2(ts.month) \o <<"-">> \o Pad2(ts.day)
        \o <<" ">> \o Pad2(ts.hour) \o <<":">> \o Pad2(ts.minute)
        \o <<":">> \o Pad2(ts.second)

Never == <<"N", "e", "v", "e", "r">>

InvalidTimestamp ==
    <<"I", "n", "v", "a", "l", "i", "d", " ",
      "t", "i", "m", "e", "s", "t", "a", "m", "p">>

InvalidFocusTime ==
    <<"I", "n", "v", "a", "l", "i", "d", " ",
      "f", "o", "c", "u", "s", " ", "t", "i", "m", "e">>

NotApplicable == <<"N", "/", "A">>

(***************************************************************************)
(* convert_filetime, convert_focus_time_to_utc                             *)
(***************************************************************************)
windows_epoch == datetime(1601, 1, 1)

unix_epoch == datetime(1970, 1, 1)

\* faulty variant: FILETIME ticks taken for microseconds
convert_filetime_NoTickScaling(filetime) ==
    IF filetime = <<0>> THEN Never
    ELSE
    LET packed == struct_pack(8, filetime)
    IN  IF IsExc(packed) THEN InvalidTimestamp
        ELSE
        LET microseconds == struct_unpack(8, packed.val).val
            timestamp == DatetimeAdd(windows_epoch, timedelta(microseconds, 1000000))
        IN  IF IsExc(timestamp) THEN InvalidTimestamp ELSE strftime(timestamp)

\* faulty variant: the ticks counted from the Unix epoch
convert_filetime_UnixEpoch(filetime) ==
    IF filetime = <<0>> THEN Never
    ELSE
    LET packed == struct_pack(8, filetime)
    IN  IF IsExc(packed) THEN InvalidTimestamp
        ELSE
        LET microseconds == DivMod(struct_unpack(8, packed.val).val, 10).q
            timestamp == DatetimeAdd(unix_epoch, timedelta(microseconds, 1000000))
        IN  IF microseconds = <<0>> THEN Never
            ELSE IF IsExc(timestamp) THEN InvalidTimestamp ELSE strftime(timestamp)

convert_filetime(filetime) ==
    IF filetime = <<0>> THEN Never
    ELSE
    LET packed == struct_pack(8, filetime)
    IN  IF IsExc(packed) THEN InvalidTimestamp
        ELSE
        LET unpacked == struct_unpack(8, packed.val).val
            microseconds == DivMod(unpacked, 10).q
        IN  IF microseconds = <<0>> THEN Never
            ELSE
            LET timestamp ==
                    DatetimeAdd(windows_epoch, timedelta(microseconds, 1000000))
            IN  IF IsExc(timestamp) THEN InvalidTimestamp ELSE strftime(timestamp)

\* faulty variant: the milliseconds taken for seconds
convert_focus_time_to_utc_AsSeconds(milliseconds) ==
    IF milliseconds = <<0>> THEN Never
    ELSE
    LET timestamp == DatetimeAdd(unix_epoch, timedelta(milliseconds, 1))
    IN  IF IsExc(timestamp) THEN InvalidFocusTime ELSE strftime(timestamp)

convert_focus_time_to_utc(milliseconds) ==
    IF milliseconds = <<0>> THEN Never
    ELSE
    LET delta == timedelta(milliseconds, 1000)
        timestamp == DatetimeAdd(unix_epoch, delta)
    IN  IF IsExc(timestamp) THEN InvalidFocusTime ELSE strftime(timestamp)

(***************************************************************************)
(* parse_userassist_entry                                                  *)
(***************************************************************************)
MinLenWin7 == 72

MinLenXP == 16

\* faulty variant: the Win7+ last-execution field read at the XP offset
parse_userassist_entry_XPOffsets(data, win7) ==
    IF Len(data) >= (IF win7 THEN MinLenWin7 ELSE MinLenXP)
    THEN LET count == struct_unpack(4, Slice(data, 4, 8))
             focus_time == struct_unpack(4, Slice(data, 12, 16))
             last_execution == struct_unpack(8, Slice(data, 8, 16))
         IN  IF win7
             THEN [count |-> count.val,
                   focus_time |-> convert_focus_time_to_utc(focus_time.val),
                   last_execution |-> convert_filetime(last_execution.val)]
             ELSE [count |-> count.val,
                   last_execution |-> convert_filetime(last_execution.val)]
    ELSE None

\* faulty variant: the length checks made with > instead of >=
parse_userassist_entry_StrictCheck(data, win7) ==
    IF Len(data) > (IF win7 THEN MinLenWin7 ELSE MinLenXP)
    THEN LET count == struct_unpack(4, Slice(data, 4, 8))
             focus_time == struct_unpack(4, Slice(data, 12, 16))
             last_execution ==
                 struct_unpack(8, IF win7 THEN Slice(data, 60, 68)
                                  ELSE Slice(data, 8, 16))
         IN  IF win7
             THEN [count |-> count.val,
                   focus_time |-> convert_focus_time_to_utc(focus_time.val),
                   last_execution |-> convert_filetime(last_execution.val)]
             ELSE [count |-> count.val,
                   last_execution |-> convert_filetime(last_execution.val)]
    ELSE None

parse_userassist_entry(data, win7) ==
    IF win7
    THEN IF Len(data) >= MinLenWin7
         THEN LET count == struct_unpack(4, Slice(data, 4, 8))
                  focus_time == struct_unpack(4, Slice(data, 12, 16))
                  last_execution == struct_unpack(8, Slice(data, 60, 68))
              IN  IF IsExc(count) \/ IsExc(focus_time) \/ IsExc(last_execution)
                  THEN None
                  ELSE [count |-> count.val,
                        focus_time |-> convert_focus_time_to_utc(focus_time.val),
                        last_execution |-> convert_filetime(last_execution.val)]
         ELSE None
    ELSE IF Len(data) >= MinLenXP
         THEN LET count == struct_unpack(4, Slice(data, 4, 8))
                  last_execution == struct_unpack(8, Slice(data, 8, 16))
              IN  IF IsExc(count) \/ IsExc(last_execution)
                  THEN None
                  ELSE [count |-> count.val,
                        last_execution |-> convert_filetime(last_execution.val)]
         ELSE None

(***************************************************************************)
(* Inputs of the functions                                                 *)
(***************************************************************************)
MaxNameLen == 3

MaxDaySteps == 640

MaxFocusDays == 50

MaxDataLen == 74

NameChars == {"A", "M", "N", "Z", "a", "m", "n", "z", "_", ":", "1"}

RECURSIVE StringsUpTo(_)
StringsUpTo(n) ==
    IF n = 0 THEN {<<>>}
    ELSE LET shorter == StringsUpTo(n - 1)
         IN  shorter \cup {Append(s, c) : s \in {t \in shorter : Len(t) = n - 1},
                                          c \in NameChars}

NameInputs == StringsUpTo(MaxNameLen)

\* FILETIME ticks of `day` days, `sec` seconds and `frac` ticks after 1601-01-01
TicksOf(day, sec, frac) == MulAdd(MulAdd(NumOf(day), 86400, sec), 10000000, frac)

\* days after 1601-01-01 around the ends of February and of the year
CalendarDays ==
    {0, 364, 365, 1153, 1154, 1155, 1460, 1461, 36217, 36218, 109265, 109266,
     134774, 145789, 145790, 145791, 146096, 146097, 153095, 153401, 153402,
     291887, 292193, 3067669, 3067670, 3067671}

Uint64Max == <<1,8,4,4,6,7,4,4,0,7,3,7,0,9,5,5,1,6,1,5>>

FiletimeInputs ==
    {NumOf(n) : n \in 0..21}
        \cup {<<1,3,2,5,1,3,9,8,4,0,0,0,0,0,0,0,0,0>>,
              <<1,3,2,5,3,9,3,2,8,0,0,0,0,0,0,0,0,0>>,
              <<2,6,5,0,4,6,7,7,4,3,9,9,9,9,9,9,9,9,9>>,
              <<2,6,5,0,4,6,7,7,4,4,0,0,0,0,0,0,0,0,0>>,
              Uint64Max,
              MulAdd(Uint64Max, 1, 1)}
        \cup {TicksOf(d, s, f) : d \in CalendarDays, s \in {0, 57600, 86399},
                                 f \in {0, 9999999}}
        \cup {TicksOf(k * 4861, 3600 * (k % 24) + 61 * (k % 59), 10 * k + 7) :
                  k \in 0..MaxDaySteps}

Uint32Max == <<4,2,9,4,9,6,7,2,9,5>>

\* milliseconds of `day` days, `sec` seconds and `ms` milliseconds
MillisOf(day, sec, ms) == MulAdd(MulAdd(NumOf(day), 86400, sec), 1000, ms)

FocusInputs32 ==
    {NumOf(n) : n \in {0, 1, 999, 1000, 1001, 59999, 60000, 86399999, 86400000}}
        \cup {Uint32Max}
        \cup {m \in {MillisOf(d, 3600 * (d % 24) + 59 * d, 7 * d) :
                         d \in 0..MaxFocusDays} : NumLeq(m, Uint32Max)}

FocusInputsWide ==
    {MulAdd(Uint32Max, 1, 1),
     <<2,5,3,4,0,2,3,0,0,7,9,9,9,9,9>>,
     <<2,5,3,4,0,2,3,0,0,8,0,0,0,0,0>>,
     MulAdd(MillisOf(999999999, 86399, 999), 1, 1),
     Uint64Max}

FocusInputs == FocusInputs32 \cup FocusInputsWide

\* little-endian bytes of an unsigned field
Field(n, size) == ToBytesLE(n, size).bytes

\* a blob of `len` bytes: `fill` everywhere but for the given fields
\* (0-based offset, bytes), cut to the length
Blob(len, fill, fields) ==
    [i \in 1..len |->
        IF \E f \in fields : f.at < i /\ i <= f.at + Len(f.bytes)
        THEN LET f == CHOOSE g \in fields : g.at < i /\ i <= g.at + Len(g.bytes)
             IN  f.bytes[i - f.at]
        ELSE fill]

At(offset, bytes) == [at |-> offset, bytes |-> bytes]

Ticks2021 == <<1,3,2,5,3,9,3,2,8,0,0,0,0,0,0,0,0,0>>

BlobContents ==
    {[fill |-> 0, fields |-> {}],
     [fill |-> 255, fields |-> {}],
     [fill |-> 0, fields |-> {At(4, Field(NumOf(5), 4))}],
     [fill |-> 0, fields |-> {At(4, Field(NumOf(3), 4)),
                              At(12, Field(NumOf(90061001), 4)),
                              At(60, Field(Ticks2021, 8))}],
     [fill |-> 0, fields |-> {At(4, Field(NumOf(7), 4)),
                              At(8, Field(Ticks2021, 8))}],
     [fill |-> 17, fields |-> {At(4, <<1, 2, 3, 4>>),
                               At(8, <<1, 0, 0, 0, 0, 0, 0, 0>>),
                               At(12, <<254, 255, 255, 255>>),
                               At(60, <<0, 0, 0, 0, 0, 0, 0, 128>>)}],
     [fill |-> 0, fields |-> {At(4, <<255, 255, 255, 255>>),
                              At(12, <<255, 255, 255, 255>>),
                              At(60, <<255, 255, 255, 255, 255, 255, 255, 255>>)}]}

EntryInputs ==
    {Blob(len, c.fill, c.fields) : len \in 0..MaxDataLen, c \in BlobContents}

(***************************************************************************)
(* The functions applied to their inputs                                   *)
(***************************************************************************)
Idle ==
    /\ pc = "idle"
    /\ ntuser_files = <<>>
    /\ file_idx = 0
    /\ guid_idx = 0
    /\ value_idx = 0
    /\ guid = ""
    /\ version_marker = <<>>
    /\ win7_format = FALSE
    /\ userassist_data = <<>>
    /\ all_data = <<>>
    /\ returned = <<>>
    /\ scanned = <<>>
    /\ presented = [guids |-> 0, values |-> 0]

\* rot13_decode(arg)
DecodeName ==
    /\ fn = "none"
    /\ fn' = "rot13_decode"
    /\ ret' = rot13_decode(arg)
    /\ UNCHANGED <<arg, prev, driverVars>>

\* rot13_decode applied to the result of the first application
DecodeNameAgain ==
    /\ fn = "rot13_decode"
    /\ prev = NoCall
    /\ arg' = ret
    /\ ret' = rot13_decode(ret)
    /\ prev' = [fn |-> fn, arg |-> arg, ret |-> ret]
    /\ UNCHANGED <<fn, driverVars>>

InitName ==
    /\ fn = "none"
    /\ arg \in NameInputs
    /\ ret = <<>>
    /\ prev = NoCall
    /\ Idle

NextName == DecodeName \/ DecodeNameAgain

SpecName == InitName /\ [][NextName]_vars

\* convert_filetime(arg)
ConvertFiletime ==
    /\ fn = "none"
    /\ arg \in FiletimeInputs
    /\ fn' = "convert_filetime"
    /\ ret' = convert_filetime(arg)
    /\ UNCHANGED <<arg, prev, driverVars>>

\* convert_focus_time_to_utc(arg)
ConvertFocusTime ==
    /\ fn = "none"
    /\ arg \in FocusInputs
    /\ fn' = "convert_focus_time_to_utc"
    /\ ret' = convert_focus_time_to_utc(arg)
    /\ UNCHANGED <<arg, prev, driverVars>>

\* convert_focus_time_to_utc applied to a second value, the first
\* application kept
ConvertFocusTimeAgain ==
    /\ fn = "convert_focus_time_to_utc"
    /\ prev = NoCall
    /\ \E ms \in FocusInputs :
          /\ arg' = ms
          /\ ret' = convert_focus_time_to_utc(ms)
    /\ prev' = [fn |-> fn, arg |-> arg, ret |-> ret]
    /\ UNCHANGED <<fn, driverVars>>

InitTime ==
    /\ fn = "none"
    /\ arg \in FiletimeInputs \cup FocusInputs
    /\ ret = <<>>
    /\ prev = NoCall
    /\ Idle

NextTime == ConvertFiletime \/ ConvertFocusTime \/ ConvertFocusTimeAgain

SpecTime == InitTime /\ [][NextTime]_vars

\* parse_userassist_entry(arg.data, arg.win7_format)
ParseEntry ==
    /\ fn = "none"
    /\ fn' = "parse_userassist_entry"
    /\ ret' = parse_userassist_entry(arg.data, arg.win7_format)
    /\ UNCHANGED <<arg, prev, driverVars>>

InitEntry ==
    /\ fn = "none"
    /\ arg \in [data : EntryInputs, win7_format : BOOLEAN]
    /\ ret = <<>>
    /\ prev = NoCall
    /\ Idle

NextEntry == ParseEntry

SpecEntry == InitEntry /\ [][NextEntry]_vars

(***************************************************************************)
(* main and parse_userassist                                               *)
(*                                                                         *)
(* The hives are read through the registry library: what a hive holds is   *)
(* chosen when the program asks for it (the next GUID subkey and its       *)
(* Version value, whether it has a Count subkey, the next value), within   *)
(* the bounds below: MaxFiles hive files, and over all of them MaxGuids     *)
(* GUID subkeys and MaxValues values.  scanned logs what was read from the *)
(* current hive.                                                           *)
(***************************************************************************)
MaxFiles == 2

MaxGuids == 2

MaxValues == 2

HivePaths ==
    << <<"Users", "alice", "NTUSER.DAT">>,
       <<"NTUSER.DAT">>,
       <<"Users", "bob", "NTUSER.DAT">>,
       <<"mnt", "img", "Users", "carol", "NTUSER.DAT">> >>

GuidNames == <<"{CEBFF5CD}", "{F4E57C4B}", "{75048700}", "{5E6AB780}">>

\* HRZR_PGY, P:\n.rkr
ValueNames ==
    << <<"H", "R", "Z", "R", "_", "P", "G", "Y">>,
       <<"P", ":", "\\", "n", ".", "r", "k", "r">> >>

VersionValues == {<<>>, <<4>>, <<5>>, <<7>>}

\* The values' data: empty; 8 bytes; 16 bytes, an XP entry run 5 times and
\* never executed; 72 bytes, a Win7+ entry run 3 times, 805306368 ms of
\* focus, last executed 2021-01-01 (read as an XP entry its bytes [8,16)
\* are ticks beyond the year 9999).
ValueData ==
    {<<>>,
     Blob(8, 1, {}),
     Blob(16, 0, {At(4, Field(NumOf(5), 4))}),
     Blob(72, 0, {At(4, Field(NumOf(3), 4)),
                  At(12, Field(NumOf(805306368), 4)),
                  At(60, Field(Ticks2021, 8))})}

\* Path(ntuser_path).parent.name
ParentName(path) == IF Len(path) >= 2 THEN path[Len(path) - 1] ELSE ""

\* faulty variant: the threshold compared with > instead of >=
Win7Format_StrictThreshold(marker) == IF marker = <<>> THEN FALSE ELSE marker[1] > 5

\* win7_format from guid_key.value("Version"): False when there is none
Win7Format(marker) == IF marker = <<>> THEN FALSE ELSE marker[1] >= 5

\* faulty variant: no default for a record without focus_time
Entry_NoDefault(username, decoded_name, parsed_data, guid_name, ntuser_path) ==
    [username |-> username,
     name |-> decoded_name,
     last_execution |-> parsed_data.last_execution,
     guid |-> guid_name,
     count |-> parsed_data.count,
     focus_time |-> IF "focus_time" \in DOMAIN parsed_data
                    THEN parsed_data.focus_time ELSE <<>>,
     source_file |-> ntuser_path]

\* the entry dict built from a parsed value
Entry(username, decoded_name, parsed_data, guid_name, ntuser_path) ==
    [username |-> username,
     name |-> decoded_name,
     last_execution |-> parsed_data.last_execution,
     guid |-> guid_name,
     count |-> parsed_data.count,
     focus_time |-> IF "focus_time" \in DOMAIN parsed_data
                    THEN parsed_data.focus_time ELSE NotApplicable,
     source_file |-> ntuser_path]

\* faulty variant: the entry carries the value's name as stored
ValueLoopBody_RawName(data_list, username, name, data, win7, guid_name, ntuser_path) ==
    LET parsed_data == parse_userassist_entry(data, win7)
    IN  IF data = <<>> \/ IsNone(parsed_data)
        THEN data_list
        ELSE Append(data_list,
                    Entry(username, name, parsed_data, guid_name, ntuser_path))

\* the body of the loop over count_key.values(): the result list after it
ValueLoopBody(data_list, username, name, data, win7, guid_name, ntuser_path) ==
    IF data = <<>>
    THEN data_list
    ELSE LET decoded_name == rot13_decode(name)
             parsed_data == parse_userassist_entry(data, win7)
         IN  IF IsNone(parsed_data)
             THEN data_list
             ELSE Append(data_list,
                         Entry(username, decoded_name, parsed_data, guid_name,
                               ntuser_path))

\* faulty variant: a failed hive's partial list is still collected
Extend_KeepsPartial(collection, result, partial) ==
    IF result.none THEN collection \o partial ELSE collection \o result.list

\* main: `if parsed_data: all_data.extend(parsed_data)`
Extend(collection, result, partial) ==
    IF ~result.none /\ result.list # <<>>
    THEN collection \o result.list
    ELSE collection

\* what parse_userassist returns: None, or its list
ReturnsNone == [none |-> TRUE, list |-> <<>>]

ReturnsList(l) == [none |-> FALSE, list |-> l]

\* parse_userassist returns to main, which collects the result.  returned
\* keeps, with the result, how many records the hive's list held when it
\* returned; the list and the log stay as they were until the next call.
Return(result) ==
    /\ returned' = Append(returned, [result |-> result,
                                     n_decoded |-> Len(userassist_data)])
    /\ all_data' = Extend(all_data, result, userassist_data)
    /\ pc' = "main"
    /\ guid_idx' = 0
    /\ value_idx' = 0
    /\ guid' = ""
    /\ version_marker' = <<>>
    /\ win7_format' = FALSE
    /\ UNCHANGED <<callVars, ntuser_files, file_idx, userassist_data, scanned,
                   presented>>

InParseUserassist ==
    pc \in {"open_registry", "open_userassist", "guid_loop", "version",
            "count_key", "value_loop"}

\* main: the next hive file; parse_userassist starts with an empty list
NextFile ==
    /\ pc = "main"
    /\ file_idx < Len(ntuser_files)
    /\ file_idx' = file_idx + 1
    /\ userassist_data' = <<>>
    /\ scanned' = <<>>
    /\ pc' = "open_registry"
    /\ UNCHANGED <<callVars, ntuser_files, guid_idx, value_idx, guid,
                   version_marker, win7_format, all_data, returned, presented>>

\* main: every file was processed
FilesDone ==
    /\ pc = "main"
    /\ file_idx = Len(ntuser_files)
    /\ pc' = "done"
    /\ UNCHANGED <<callVars, ntuser_files, file_idx, guid_idx, value_idx, guid,
                   version_marker, win7_format, userassist_data, all_data,
                   returned, scanned, presented>>

\* Registry.Registry(ntuser_path) opens the hive
OpenRegistry ==
    /\ pc = "open_registry"
    /\ pc' = "open_userassist"
    /\ UNCHANGED <<callVars, ntuser_files, file_idx, guid_idx, value_idx, guid,
                   version_marker, win7_format, userassist_data, all_data,
                   returned, scanned, presented>>

\* registry.open(...UserAssist) finds the key
OpenUserAssist ==
    /\ pc = "open_userassist"
    /\ pc' = "guid_loop"
    /\ UNCHANGED <<callVars, ntuser_files, file_idx, guid_idx, value_idx, guid,
                   version_marker, win7_format, userassist_data, all_data,
                   returned, scanned, presented>>

\* registry.open(...UserAssist) raises RegistryKeyNotFoundException
UserAssistNotFound ==
    /\ pc = "open_userassist"
    /\ Return(ReturnsNone)

\* any other exception inside parse_userassist (unreadable or corrupt hive,
\* a value of an unexpected type): `except Exception`
HiveFails ==
    /\ InParseUserassist
    /\ Return(ReturnsNone)

\* the next GUID subkey of the UserAssist key
NextGuid ==
    /\ pc = "guid_loop"
    /\ presented.guids < MaxGuids
    /\ presented' = [presented EXCEPT !.guids = @ + 1]
    /\ guid_idx' = guid_idx + 1
    /\ guid' = GuidNames[((guid_idx) % Len(GuidNames)) + 1]
    /\ \E marker \in VersionValues : version_marker' = marker
    /\ pc' = "version"
    /\ UNCHANGED <<callVars, ntuser_files, file_idx, value_idx, win7_format,
                   userassist_data, all_data, returned, scanned>>

\* no GUID subkey is left: parse_userassist returns its list
GuidsDone ==
    /\ pc = "guid_loop"
    /\ Return(ReturnsList(userassist_data))

\* guid_key.value("Version"), or RegistryValueNotFoundException
ReadVersion ==
    /\ pc = "version"
    /\ win7_format' = Win7Format(version_marker)
    /\ pc' = "count_key"
    /\ UNCHANGED <<callVars, ntuser_files, file_idx, guid_idx, value_idx, guid,
                   version_marker, userassist_data, all_data, returned, scanned,
                   presented>>

\* guid_key.subkey("Count") finds the subkey
OpenCount ==
    /\ pc = "count_key"
    /\ pc' = "value_loop"
    /\ UNCHANGED <<callVars, ntuser_files, file_idx, guid_idx, value_idx, guid,
                   version_marker, win7_format, userassist_data, all_data,
                   returned, scanned, presented>>

\* guid_key.subkey("Count") raises RegistryKeyNotFoundException: continue
CountNotFound ==
    /\ pc = "count_key"
    /\ scanned' = Append(scanned, [kind |-> "no_count", guid |-> guid])
    /\ version_marker' = <<>>
    /\ pc' = "guid_loop"
    /\ UNCHANGED <<callVars, ntuser_files, file_idx, guid_idx, value_idx, guid,
                   win7_format, userassist_data, all_data, returned, presented>>

\* the next value of the Count subkey, and the loop's body for it
NextValue ==
    /\ pc = "value_loop"
    /\ presented.values < MaxValues
    /\ \E data \in ValueData :
          LET name == ValueNames[(value_idx % Len(ValueNames)) + 1]
              ntuser_path == ntuser_files[file_idx]
          IN  /\ userassist_data' =
                     ValueLoopBody(userassist_data, ParentName(ntuser_path), name,
                                   data, win7_format, guid, ntuser_path)
              /\ scanned' = Append(scanned,
                                   [kind |-> "value", guid |-> guid, name |-> name,
                                    data |-> data, win7_format |-> win7_format])
    /\ value_idx' = value_idx + 1
    /\ presented' = [presented EXCEPT !.values = @ + 1]
    /\ UNCHANGED <<callVars, pc, ntuser_files, file_idx, guid_idx, guid, version_marker,
                   win7_format, all_data, returned>>

\* no value is left: on to the next GUID subkey
ValuesDone ==
    /\ pc = "value_loop"
    /\ value_idx' = 0
    /\ version_marker' = <<>>
    /\ pc' = "guid_loop"
    /\ UNCHANGED <<callVars, ntuser_files, file_idx, guid_idx, guid, win7_format,
                   userassist_data, all_data, returned, scanned, presented>>

Init ==
    /\ fn = "none"
    /\ arg = <<>>
    /\ ret = <<>>
    /\ prev = NoCall
    /\ pc = "main"
    /\ ntuser_files = [i \in 1..MaxFiles |-> HivePaths[((i - 1) % Len(HivePaths)) + 1]]
    /\ file_idx = 0
    /\ guid_idx = 0
    /\ value_idx = 0
    /\ guid = ""
    /\ version_marker = <<>>
    /\ win7_format = FALSE
    /\ userassist_data = <<>>
    /\ all_data = <<>>
    /\ returned = <<>>
    /\ scanned = <<>>
    /\ presented = [guids |-> 0, values |-> 0]

Next ==
    \/ NextFile
    \/ FilesDone
    \/ OpenRegistry
    \/ OpenUserAssist
    \/ UserAssistNotFound
    \/ HiveFails
    \/ NextGuid
    \/ GuidsDone
    \/ ReadVersion
    \/ OpenCount
    \/ CountNotFound
    \/ NextValue
    \/ ValuesDone

Spec == Init /\ [][Next]_vars

(***************************************************************************)
(* Reference definitions used by the properties: reading a timestamp       *)
(* string back, and counting the seconds between an epoch and a date       *)
(***************************************************************************)
IsDigit(c) == \E d \in 0..9 : Chr(d) = c

DigitOf(c) == CHOOSE d \in 0..9 : Chr(d) = c

Number(s, from, to) == ToSmall([i \in 1..(to - from + 1) |-> DigitOf(s[from + i - 1])])

LeapYearsBefore(year) ==
    Cardinality({y \in ((year - 1) - ((year - 1) % 400) + 1)..(year - 1) : IsLeap(y)})
        + 97 * ((year - 1) \div 400)

MonthLength(year, month) ==
    IF month = 2 THEN (IF IsLeap(year) THEN 29 ELSE 28)
    ELSE IF month \in {4, 6, 9, 11} THEN 30 ELSE 31

RECURSIVE DaysBeforeMonthOf(_, _)
DaysBeforeMonthOf(year, month) ==
    IF month = 1 THEN 0
    ELSE DaysBeforeMonthOf(year, month - 1) + MonthLength(year, month - 1)

\* days from <epochYear>-01-01 to the date
DaysSince(epochYear, year, month, day) ==
    365 * (year - epochYear) + LeapYearsBefore(year) - LeapYearsBefore(epochYear)
        + DaysBeforeMonthOf(year, month) + day - 1

\* s has the form YYYY-MM-DD HH:MM:SS and names a date and time that exist
IsTimestamp(s) ==
    /\ Len(s) = 19
    /\ s[5] = "-" /\ s[8] = "-" /\ s[11] = " " /\ s[14] = ":" /\ s[17] = ":"
    /\ \A i \in (1..19) \ {5, 8, 11, 14, 17} : IsDigit(s[i])
    /\ Number(s, 1, 4) \in 1..9999
    /\ Number(s, 6, 7) \in 1..12
    /\ Number(s, 9, 10) \in 1..MonthLength(Number(s, 1, 4), Number(s, 6, 7))
    /\ Number(s, 12, 13) \in 0..23
    /\ Number(s, 15, 16) \in 0..59
    /\ Number(s, 18, 19) \in 0..59

\* whole seconds from <epochYear>-01-01 00:00:00 to the timestamp s
SecondsSince(epochYear, s) ==
    MulAdd(NumOf(DaysSince(epochYear, Number(s, 1, 4), Number(s, 6, 7),
                           Number(s, 9, 10))),
           86400,
           3600 * Number(s, 12, 13) + 60 * Number(s, 15, 16) + Number(s, 18, 19))

\* n // 10^k
DropDigits(n, k) == IF Len(n) <= k THEN <<0>> ELSE SubSeq(n, 1, Len(n) - k)

\* the digits of a timestamp: of two timestamps the earlier has the smaller
TimestampDigits(s) == [i \in 1..14 |-> DigitOf(s[<<1, 2, 3, 4, 6, 7, 9, 10, 12, 13, 15, 16, 18, 19>>[i]])]

\* first FILETIME tick, and first millisecond after 1970, of the year 10000
FiletimeLimit == MulAdd(MulAdd(NumOf(DaysSince(1601, 10000, 1, 1)), 86400, 0), 10000000, 0)

FocusLimit == MulAdd(MulAdd(NumOf(DaysSince(1970, 10000, 1, 1)), 86400, 0), 1000, 0)

(***************************************************************************)
(* Timestamp strings named by the properties                               *)
(***************************************************************************)
\* "2021-01-01 00:00:00"
TS_2021_01_01 ==
    <<"2", "0", "2", "1", "-", "0", "1", "-", "0",
     "1", " ", "0", "0", ":", "0", "0", ":", "0", "0">>

\* "2020-12-02 16:00:00"
TS_2020_12_02_160000 ==
    <<"2", "0", "2", "0", "-", "1", "2", "-", "0",
     "2", " ", "1", "6", ":", "0", "0", ":", "0", "0">>

\* "9999-12-31 23:59:59"
TS_9999_12_31_235959 ==
    <<"9", "9", "9", "9", "-", "1", "2", "-", "3",
     "1", " ", "2", "3", ":", "5", "9", ":", "5", "9">>

\* "1970-01-02 01:01:01"
TS_1970_01_02_010101 ==
    <<"1", "9", "7", "0", "-", "0", "1", "-", "0",
     "2", " ", "0", "1", ":", "0", "1", ":", "0", "1">>

\* "1970-01-01 00:00:01"
TS_1970_01_01_000001 ==
    <<"1", "9", "7", "0", "-", "0", "1", "-", "0",
     "1", " ", "0", "0", ":", "0", "0", ":", "0", "1">>

\* "1970-02-19 17:02:47"
TS_1970_02_19_170247 ==
    <<"1", "9", "7", "0", "-", "0", "2", "-", "1",
     "9", " ", "1", "7", ":", "0", "2", ":", "4", "7">>

(***************************************************************************)
(* Properties                                                              *)
(***************************************************************************)

\* C8: rot13_decode keeps the length, leaves every non-letter unchanged,
\* moves every letter 13 places within its own case, and applied twice
\* gives the string back.
C8_Rot13Involution ==
    fn = "rot13_decode" =>
        /\ Len(ret) = Len(arg)
        /\ \A i \in 1..Len(arg) :
              /\ (~IsIn(arg[i], Upper) /\ ~IsIn(arg[i], Lower)) => ret[i] = arg[i]
              /\ \A table \in {Upper, Lower} :
                    IsIn(arg[i], table) =>
                        /\ IsIn(ret[i], table)
                        /\ IndexIn(ret[i], table) - IndexIn(arg[i], table) \in {13, -13}
        /\ prev.fn = "rot13_decode" => (arg = prev.ret /\ ret = prev.arg)

C8_Witness ==
    /\ fn = "rot13_decode"
    /\ prev.fn = "rot13_decode"
    /\ prev.arg = <<"A", "m", "_">>
    /\ prev.ret = <<"N", "z", "_">>
    /\ ret = <<"A", "m", "_">>

\* C1: parse_userassist_entry returns None exactly when the data is shorter
\* than the format's minimum (72 for Win7+, 16 for XP), and a record
\* otherwise; it raises nothing.
C1_NoneIffUndersized ==
    fn = "parse_userassist_entry" =>
        /\ ~IsExc(ret)
        /\ IsNone(ret) <=> Len(arg.data) < (IF arg.win7_format THEN 72 ELSE 16)
        /\ ~IsNone(ret) => {"count", "last_execution"} \subseteq DOMAIN ret

C1_Witness ==
    /\ fn = "parse_userassist_entry"
    /\ arg.win7_format
    /\ Len(arg.data) = 72
    /\ ~IsNone(ret)

\* C2: the record's count is the little-endian u32 of bytes [4,8); its
\* last_execution is convert_filetime of the little-endian u64 of bytes
\* [60,68) (Win7+) or [8,16) (XP); Win7+ adds focus_time, convert_focus_time_to_utc
\* of the u32 of bytes [12,16), and XP has no focus_time.  The all-zero
\* 72-byte Win7+ blob gives 0, Never, Never; the 16-byte XP blob with
\* count bytes 05 00 00 00 and zero ticks gives 5 and Never.
C2_FieldLayout ==
    (fn = "parse_userassist_entry" /\ ~IsNone(ret)) =>
        LET data == arg.data IN
        /\ ret.count = FromBytesLE(SubSeq(data, 5, 8))
        /\ Field(ret.count, 4) = SubSeq(data, 5, 8)
        /\ IF arg.win7_format
           THEN /\ DOMAIN ret = {"count", "focus_time", "last_execution"}
                /\ ret.last_execution = convert_filetime(FromBytesLE(SubSeq(data, 61, 68)))
                /\ ret.focus_time = convert_focus_time_to_utc(FromBytesLE(SubSeq(data, 13, 16)))
           ELSE /\ DOMAIN ret = {"count", "last_execution"}
                /\ ret.last_execution = convert_filetime(FromBytesLE(SubSeq(data, 9, 16)))
        /\ (arg.win7_format /\ data = [i \in 1..72 |-> 0]) =>
              ret = [count |-> <<0>>, last_execution |-> Never, focus_time |-> Never]
        /\ (~arg.win7_format /\ data = <<0, 0, 0, 0, 5, 0, 0, 0, 0, 0, 0, 0, 0, 0, 0, 0>>) =>
              ret = [count |-> <<5>>, last_execution |-> Never]
        /\ (arg.win7_format /\ Len(data) >= 72
                /\ SubSeq(data, 5, 8) = <<3, 0, 0, 0>>
                /\ SubSeq(data, 13, 16) = <<201, 56, 94, 5>>
                /\ SubSeq(data, 61, 68) = <<0, 128, 53, 12, 209, 223, 214, 1>>) =>
              ret = [count |-> <<3>>,
                     last_execution |-> TS_2021_01_01,
                     focus_time |-> TS_1970_01_02_010101]

C2_Witness ==
    /\ fn = "parse_userassist_entry"
    /\ arg.win7_format
    /\ Len(arg.data) = 72
    /\ ~IsNone(ret)
    /\ ret.count = <<3>>
    /\ ret.last_execution = TS_2021_01_01

\* C5: for unsigned 64-bit ticks convert_filetime returns "Never" exactly for
\* ticks 0..9; otherwise the timestamp of 1601-01-01 plus ticks // 10
\* microseconds while that date is within the year 9999, and
\* "Invalid timestamp" beyond.
C5_FiletimeConversion ==
    (fn = "convert_filetime" /\ NumLeq(arg, Uint64Max)) =>
        /\ ret = Never <=> arg \in {<<d>> : d \in 0..9}
        /\ (ret # Never /\ NumLt(arg, FiletimeLimit)) =>
              /\ IsTimestamp(ret)
              /\ SecondsSince(1601, ret) = DropDigits(arg, 7)
        /\ ~NumLt(arg, FiletimeLimit) => ret = InvalidTimestamp

C5_Witness ==
    /\ fn = "convert_filetime"
    /\ arg = <<2,6,5,0,4,6,7,7,4,3,9,9,9,9,9,9,9,9,9>>
    /\ ret = TS_9999_12_31_235959

\* C6 as stated: convert_filetime(132513984000000000) is "2021-01-01 00:00:00".
C6_AsStated ==
    (fn = "convert_filetime" /\ arg = <<1,3,2,5,1,3,9,8,4,0,0,0,0,0,0,0,0,0>>) =>
        ret = TS_2021_01_01

\* C6 amended: convert_filetime(132513984000000000) is "2020-12-02 16:00:00";
\* the ticks of 2021-01-01T00:00:00Z are 132539328000000000, for which it
\* returns "2021-01-01 00:00:00".
C6_Amended ==
    fn = "convert_filetime" =>
        /\ arg = <<1,3,2,5,1,3,9,8,4,0,0,0,0,0,0,0,0,0>> => ret = TS_2020_12_02_160000
        /\ arg = <<1,3,2,5,3,9,3,2,8,0,0,0,0,0,0,0,0,0>> => ret = TS_2021_01_01

C6_Witness ==
    /\ fn = "convert_filetime"
    /\ arg = <<1,3,2,5,1,3,9,8,4,0,0,0,0,0,0,0,0,0>>
    /\ ret = TS_2020_12_02_160000

\* C7: convert_focus_time_to_utc(0) is "Never"; a positive count of
\* milliseconds that stays within the year 9999 gives the timestamp of
\* 1970-01-01 plus that many milliseconds, a larger count never an earlier
\* timestamp; every unsigned 32-bit count gives "Never" or a timestamp; a
\* count beyond the year 9999 gives "Invalid focus time".
C7_FocusTimeConversion ==
    fn = "convert_focus_time_to_utc" =>
        /\ arg = <<0>> => ret = Never
        /\ (arg # <<0>> /\ NumLt(arg, FocusLimit)) =>
              /\ IsTimestamp(ret)
              /\ SecondsSince(1970, ret) = DropDigits(arg, 3)
        /\ NumLeq(arg, Uint32Max) => (ret = Never \/ IsTimestamp(ret))
        /\ ~NumLt(arg, FocusLimit) => ret = InvalidFocusTime
        /\ (/\ prev.fn = "convert_focus_time_to_utc"
            /\ prev.arg # <<0>>
            /\ NumLeq(prev.arg, arg)
            /\ NumLt(arg, FocusLimit)) =>
              /\ IsTimestamp(prev.ret)
              /\ IsTimestamp(ret)
              /\ LexLeq(TimestampDigits(prev.ret), TimestampDigits(ret))

C7_Witness ==
    /\ fn = "convert_focus_time_to_utc"
    /\ prev.fn = "convert_focus_time_to_utc"
    /\ prev.arg = <<1, 0, 0, 0>>
    /\ prev.ret = TS_1970_01_01_000001
    /\ arg = Uint32Max
    /\ ret = TS_1970_02_19_170247

\* ---- the driver ----

ValueEvents == SelectSeq(scanned, LAMBDA e : e.kind = "value")

\* the value's data is not empty and has the minimum length of its format
Qualifies(e) ==
    /\ e.data # <<>>
    /\ Len(e.data) >= (IF e.win7_format THEN 72 ELSE 16)

QualifyingEvents == SelectSeq(ValueEvents, Qualifies)

\* name of the directory that holds the hive file
EnclosingDirectory(path) ==
    IF Len(path) < 2 THEN "" ELSE SubSeq(path, Len(path) - 1, Len(path) - 1)[1]

Records == {userassist_data[i] : i \in 1..Len(userassist_data)}
               \cup {all_data[i] : i \in 1..Len(all_data)}

IsTimeField(s) == s = Never \/ s = InvalidTimestamp \/ s = InvalidFocusTime \/ IsTimestamp(s)

\* C3 as stated: in every emitted record last_execution and focus_time are
\* each a timestamp string, "Never" or an invalid-marker string.
C3_AsStated ==
    \A r \in Records : IsTimeField(r.last_execution) /\ IsTimeField(r.focus_time)

\* C3 amended: in every emitted record last_execution is a timestamp string,
\* "Never" or "Invalid timestamp"; focus_time is a timestamp string, "Never"
\* or "Invalid focus time" in a record of a Win7+ GUID subkey and is "N/A"
\* in every record of an XP one; neither is ever missing.
C3_Amended ==
    /\ \A r \in Records :
          /\ {"last_execution", "focus_time"} \subseteq DOMAIN r
          /\ r.last_execution = Never \/ r.last_execution = InvalidTimestamp
                \/ IsTimestamp(r.last_execution)
          /\ r.focus_time = Never \/ r.focus_time = InvalidFocusTime
                \/ r.focus_time = NotApplicable \/ IsTimestamp(r.focus_time)
    /\ Len(userassist_data) = Len(QualifyingEvents)
    /\ \A i \in 1..Len(userassist_data) :
          userassist_data[i].focus_time = NotApplicable
              <=> ~QualifyingEvents[i].win7_format

C3_Witness ==
    /\ pc = "done"
    /\ \E r \in Records : r.focus_time = NotApplicable /\ r.last_execution = Never
    /\ \E r \in Records : IsTimestamp(r.focus_time) /\ IsTimestamp(r.last_execution)

\* C4: the format of a GUID subkey follows from its Version value alone
\* (none: XP; 4: XP; 5 and 7: Win7+; in general Win7+ exactly from 5 on),
\* whatever the subkey before it had, and every value of its Count subkey
\* is decoded with it.
C4_FormatPerGuid ==
    /\ pc \in {"count_key", "value_loop"} =>
          /\ win7_format <=> (version_marker # <<>> /\ version_marker[1] >= 5)
          /\ version_marker \in {<<>>, <<4>>} => ~win7_format
          /\ version_marker \in {<<5>>, <<7>>} => win7_format
          /\ \A i \in 1..Len(ValueEvents) :
                ValueEvents[i].guid = guid =>
                    ValueEvents[i].win7_format = win7_format
    /\ \A i, j \in 1..Len(ValueEvents) :
          ValueEvents[i].guid = ValueEvents[j].guid =>
              ValueEvents[i].win7_format = ValueEvents[j].win7_format

C4_Witness ==
    /\ pc = "value_loop"
    /\ version_marker = <<>>
    /\ ~win7_format
    /\ Len(ValueEvents) = 2
    /\ ValueEvents[1].guid # guid /\ ValueEvents[1].win7_format
    /\ ValueEvents[2].guid = guid /\ ~ValueEvents[2].win7_format
    /\ Len(userassist_data) = 2

RECURSIVE ListsOfSuccessful(_)
ListsOfSuccessful(results) ==
    IF results = <<>> THEN <<>>
    ELSE ListsOfSuccessful(SubSeq(results, 1, Len(results) - 1))
             \o (IF results[Len(results)].result.none THEN <<>>
                 ELSE results[Len(results)].result.list)

FileIndex(path) == CHOOSE k \in 1..Len(ntuser_files) : ntuser_files[k] = path

\* C10: a GUID subkey without a Count subkey adds no record and the subkeys
\* after it are still read; a hive without a UserAssist key, or one that
\* fails at any point, adds no record to the collection; every file is
\* processed, and the collection is the lists of the hives that returned
\* one, joined in file order.
C10_FailuresAreConfined ==
    /\ all_data = ListsOfSuccessful(returned)
    /\ \A k \in 1..Len(returned) :
          returned[k].result.none =>
              \A i \in 1..Len(all_data) : all_data[i].source_file # ntuser_files[k]
    /\ \A i, j \in 1..Len(all_data) :
          i <= j => FileIndex(all_data[i].source_file) <= FileIndex(all_data[j].source_file)
    /\ Len(returned) = (IF pc \in {"main", "done"} THEN file_idx ELSE file_idx - 1)
    /\ pc = "done" => Len(returned) = Len(ntuser_files)
    /\ \A n \in 1..Len(scanned) :
          scanned[n].kind = "no_count" =>
              \A i \in 1..Len(userassist_data) : userassist_data[i].guid # scanned[n].guid

\* the first hive failed after its first GUID subkey had no Count subkey
\* and its second gave a record; the next file is about to be processed
C10_Witness ==
    /\ pc = "main"
    /\ file_idx = 1
    /\ file_idx < Len(ntuser_files)
    /\ Len(returned) = 1
    /\ returned[1].result.none
    /\ returned[1].n_decoded = 1
    /\ all_data = <<>>
    /\ Len(scanned) = 2
    /\ scanned[1].kind = "no_count"
    /\ scanned[2].kind = "value"
    /\ Len(userassist_data) = 1
    /\ userassist_data[1].guid = scanned[2].guid

====
